---- MODULE Spec2Model ----
(***************************************************************************)
(* RegexpTokenizer (lib/nltk/tokenize/regexp.py): one tokenizer object     *)
(* with its lazily compiled matcher, and two callers running tokenize and  *)
(* span_tokenize on it.  The regular-expression engine is modelled by the  *)
(* loops of CPython 2.7's _sre (the interpreter main.py is written for):   *)
(* pattern_findall, pattern_split and the finditer scanner.                *)
(*                                                                         *)
(* Texts are sequences of one-character strings; offsets are 0-based as in *)
(* Python, so the character at offset p is text[p+1].                      *)
(***************************************************************************)
EXTENDS Integers, Sequences, FiniteSets, TLC

\* ---- bounds ----
MaxLen == 4
MaxConcLen == 2

Threads == {1, 2}
Alphabet == {"a", "\n"}
AllChars == {"a", "b", "c", " ", "\n"}

SeqsUpTo(n) == UNION {[1..k -> Alphabet] : k \in 0..n}
ExampleTexts == {<<" ", "a", " ", " ", "b", " ">>, <<"a", " ", "b", " ", " ", "c">>}
Texts == SeqsUpTo(MaxLen) \cup ExampleTexts
ConcTexts == SeqsUpTo(MaxConcLen)

\* ---- configuration space ----
DefaultFlags == {"UNICODE", "MULTILINE", "DOTALL"}
FlagSets == {DefaultFlags, {}}
Patterns == {"\\s+", "\\w+", "\\w*", ".+", "(\\w)\\w*", "\\s*\\n\\s*\\n\\s*", "("}

VARIABLES _pattern, _gaps, _discard_empty, _flags, _regexp,
          call, input, compiles, failed

vars == <<_pattern, _gaps, _discard_empty, _flags, _regexp,
          call, input, compiles, failed>>
config == <<_pattern, _gaps, _discard_empty, _flags>>

\* ---- the regular-expression engine ----
None == [compiled |-> FALSE, pattern |-> "", flags |-> {}]

Item(cls, q, cap) == [cls |-> cls, q |-> q, cap |-> cap]

sre_parse(p) ==
  CASE p = "\\s+" -> <<Item("s", "plus", FALSE)>>
    [] p = "\\w+" -> <<Item("w", "plus", FALSE)>>
    [] p = "\\w*" -> <<Item("w", "star", FALSE)>>
    [] p = ".+" -> <<Item("dot", "plus", FALSE)>>
    [] p = "(\\w)\\w*" -> <<Item("w", "one", TRUE), Item("w", "star", FALSE)>>
    [] p = "\\s*\\n\\s*\\n\\s*" ->
         <<Item("s", "star", FALSE), Item("n", "one", FALSE),
           Item("s", "star", FALSE), Item("n", "one", FALSE),
           Item("s", "star", FALSE)>>
    [] OTHER -> <<>>

sre_valid(p) == p # "("

re_error(p) == "error: unbalanced parenthesis"

re_compile(p) == [compiled |-> TRUE, pattern |-> p, flags |-> {}]

ClassChars(cls, flags) ==
  CASE cls = "s" -> {" ", "\n"}
    [] cls = "w" -> {"a", "b", "c"}
    [] cls = "n" -> {"\n"}
    [] cls = "dot" -> IF "DOTALL" \in flags THEN AllChars ELSE AllChars \ {"\n"}

Slice(text, s, e) == SubSeq(text, s + 1, e)

RECURSIVE RunLen(_, _, _)
RunLen(chars, text, p) ==
  IF p < Len(text) /\ text[p + 1] \in chars
    THEN 1 + RunLen(chars, text, p + 1)
    ELSE 0

RECURSIVE MatchItems(_, _, _, _, _), TryCount(_, _, _, _, _, _, _)
TryCount(items, i, text, p, flags, n, lo) ==
  IF n < lo THEN <<>>
  ELSE LET rest == MatchItems(items, i + 1, text, p + n, flags)
       IN IF rest # <<>> THEN <<p>> \o rest
          ELSE TryCount(items, i, text, p, flags, n - 1, lo)

MatchItems(items, i, text, p, flags) ==
  IF i > Len(items) THEN <<p>>
  ELSE LET it == items[i]
           run == RunLen(ClassChars(it.cls, flags), text, p)
           lo == IF it.q = "star" THEN 0 ELSE 1
           hi == IF it.q = "one" THEN (IF run > 0 THEN 1 ELSE 0) ELSE run
       IN TryCount(items, i, text, p, flags, hi, lo)

RECURSIVE sre_search(_, _, _)
sre_search(re, text, start) ==
  IF start > Len(text) THEN <<>>
  ELSE LET m == MatchItems(sre_parse(re.pattern), 1, text, start, re.flags)
       IN IF m # <<>> THEN m ELSE sre_search(re, text, start + 1)

m_start(m) == m[1]
m_end(m) == m[Len(m)]

RECURSIVE m_groups(_, _, _, _)
m_groups(items, i, m, text) ==
  IF i > Len(items) THEN <<>>
  ELSE (IF items[i].cap THEN <<Slice(text, m[i], m[i + 1])>> ELSE <<>>)
         \o m_groups(items, i + 1, m, text)

scanner_advance_stuck(m) == m_end(m)

scanner_advance(m) == IF m_end(m) = m_start(m) THEN m_end(m) + 1 ELSE m_end(m)

\* ---- one call of tokenize / span_tokenize ----
Idle == [pc |-> "idle", op |-> "none", text |-> <<>>, re |-> None,
         start |-> 0, last |-> 0, acc |-> <<>>, exc |-> ""]

new_call(op, text) == [Idle EXCEPT !.pc = "check", !.op = op, !.text = text]

findall_item(re, m, text) ==
  LET gs == m_groups(sre_parse(re.pattern), 1, m, text)
  IN IF gs = <<>> THEN Slice(text, m_start(m), m_end(m))
     ELSE IF Len(gs) = 1 THEN gs[1] ELSE gs

findall_step(c) ==
  LET m == sre_search(c.re, c.text, c.start)
  IN IF m = <<>> THEN [c EXCEPT !.pc = "done"]
     ELSE [c EXCEPT !.acc = Append(@, findall_item(c.re, m, c.text)),
                    !.start = scanner_advance(m)]

split_step_no_tail(c) ==
  LET m == sre_search(c.re, c.text, c.start)
      n == Len(c.text)
  IN IF m = <<>> \/ (m_start(m) = m_end(m) /\ c.last = n)
       THEN [c EXCEPT !.acc = IF c.last < n THEN Append(@, Slice(c.text, c.last, n)) ELSE @,
                      !.pc = "done"]
     ELSE IF m_start(m) = m_end(m)
       THEN [c EXCEPT !.start = m_end(m) + 1]
     ELSE [c EXCEPT !.acc = (@ \o <<Slice(c.text, c.last, m_start(m))>>)
                              \o m_groups(sre_parse(c.re.pattern), 1, m, c.text),
                    !.last = m_end(m),
                    !.start = m_end(m)]

split_step(c) ==
  LET m == sre_search(c.re, c.text, c.start)
      n == Len(c.text)
  IN IF m = <<>> \/ (m_start(m) = m_end(m) /\ c.last = n)
       THEN [c EXCEPT !.acc = Append(@, Slice(c.text, c.last, n)), !.pc = "done"]
     ELSE IF m_start(m) = m_end(m)
       THEN [c EXCEPT !.start = m_end(m) + 1]
     ELSE [c EXCEPT !.acc = (@ \o <<Slice(c.text, c.last, m_start(m))>>)
                              \o m_groups(sre_parse(c.re.pattern), 1, m, c.text),
                    !.last = m_end(m),
                    !.start = m_end(m)]

tokenize_gaps_step_keep_all(c, discard_empty) == split_step(c)

tokenize_gaps_step(c, discard_empty) ==
  LET d == split_step(c)
  IN IF d.pc = "done" /\ discard_empty
       THEN [d EXCEPT !.acc = SelectSeq(@, LAMBDA tok : tok # <<>>)]
       ELSE d

finditer_step(c) ==
  LET m == sre_search(c.re, c.text, c.start)
  IN IF m = <<>> THEN [c EXCEPT !.pc = "done"]
     ELSE [c EXCEPT !.acc = Append(@, <<m_start(m), m_end(m)>>),
                    !.start = scanner_advance(m)]

regexp_span_tokenize_step(c) ==
  LET m == sre_search(c.re, c.text, c.start)
  IN IF m = <<>>
       THEN [c |-> [c EXCEPT !.pc = "done"], span |-> <<c.last, Len(c.text)>>]
       ELSE [c |-> [c EXCEPT !.last = m_end(m), !.start = scanner_advance(m)],
             span |-> <<c.last, m_start(m)>>]

span_tokenize_gaps_step(c, discard_empty) ==
  LET r == regexp_span_tokenize_step(c)
      left == r.span[1]
      right == r.span[2]
  IN IF ~(discard_empty /\ left = right)
       THEN [r.c EXCEPT !.acc = Append(@, r.span)]
       ELSE r.c

Step(c, gaps, discard_empty) ==
  IF c.op = "tokenize"
    THEN (IF gaps THEN tokenize_gaps_step(c, discard_empty) ELSE findall_step(c))
    ELSE (IF gaps THEN span_tokenize_gaps_step(c, discard_empty) ELSE finditer_step(c))

\* a call run to completion with no other caller
RECURSIVE RunToEnd(_, _, _)
RunToEnd(c, gaps, discard_empty) ==
  IF c.pc = "done" THEN c.acc
  ELSE RunToEnd(Step(c, gaps, discard_empty), gaps, discard_empty)

Alone(op, text, pattern, gaps, discard_empty) ==
  RunToEnd([new_call(op, text) EXCEPT !.pc = "scan", !.re = re_compile(pattern)],
           gaps, discard_empty)

\* ---- the tokenizer object and its callers ----
needs_compile_inverted(regexp) == regexp # None

needs_compile_always(regexp) == TRUE

needs_compile(regexp) == regexp = None

compile_store_keeps_failure(pattern) ==
  IF sre_valid(pattern)
    THEN [regexp |-> re_compile(pattern), exc |-> ""]
    ELSE [regexp |-> re_compile(pattern), exc |-> re_error(pattern)]

compile_store(pattern) ==
  IF sre_valid(pattern)
    THEN [regexp |-> re_compile(pattern), exc |-> ""]
    ELSE [regexp |-> None, exc |-> re_error(pattern)]

InitObject ==
  /\ _pattern \in Patterns
  /\ _gaps \in BOOLEAN
  /\ _discard_empty \in BOOLEAN
  /\ _flags \in FlagSets
  /\ _regexp = None
  /\ call = [t \in Threads |-> Idle]
  /\ compiles = 0
  /\ failed = FALSE

Init == InitObject /\ input = ConcTexts

InitSeq == InitObject /\ input \in {{txt} : txt \in Texts}

Call(t) ==
  /\ call[t].pc = "idle"
  /\ \E op \in {"tokenize", "span_tokenize"}, txt \in input :
       call' = [call EXCEPT ![t] = new_call(op, txt)]
  /\ UNCHANGED <<config, _regexp, input, compiles, failed>>

CheckRegexp(t) ==
  /\ call[t].pc = "check"
  /\ call' = [call EXCEPT ![t].pc =
                IF needs_compile(_regexp) THEN "compile" ELSE "fetch"]
  /\ UNCHANGED <<config, _regexp, input, compiles, failed>>

CompileRegexp(t) ==
  /\ call[t].pc = "compile"
  /\ LET r == compile_store(_pattern)
     IN IF r.exc = ""
          THEN /\ _regexp' = r.regexp
               /\ compiles' = compiles + 1
               /\ call' = [call EXCEPT ![t].pc = "fetch"]
               /\ UNCHANGED failed
          ELSE /\ _regexp' = r.regexp
               /\ failed' = TRUE
               /\ call' = [call EXCEPT ![t].pc = "raised", ![t].exc = r.exc]
               /\ UNCHANGED compiles
  /\ UNCHANGED <<config, input>>

Fetch(t) ==
  /\ call[t].pc = "fetch"
  /\ call' = [call EXCEPT ![t] =
                IF _regexp = None
                  THEN [@ EXCEPT !.pc = "raised", !.exc = "AttributeError"]
                  ELSE [@ EXCEPT !.pc = "scan", !.re = _regexp]]
  /\ UNCHANGED <<config, _regexp, input, compiles, failed>>

TokenizeFindall(t) ==
  /\ call[t].pc = "scan" /\ call[t].op = "tokenize" /\ ~_gaps
  /\ call' = [call EXCEPT ![t] = findall_step(@)]
  /\ UNCHANGED <<config, _regexp, input, compiles, failed>>

TokenizeSplit(t) ==
  /\ call[t].pc = "scan" /\ call[t].op = "tokenize" /\ _gaps
  /\ call' = [call EXCEPT ![t] = tokenize_gaps_step(@, _discard_empty)]
  /\ UNCHANGED <<config, _regexp, input, compiles, failed>>

SpanFinditer(t) ==
  /\ call[t].pc = "scan" /\ call[t].op = "span_tokenize" /\ ~_gaps
  /\ call' = [call EXCEPT ![t] = finditer_step(@)]
  /\ UNCHANGED <<config, _regexp, input, compiles, failed>>

SpanGaps(t) ==
  /\ call[t].pc = "scan" /\ call[t].op = "span_tokenize" /\ _gaps
  /\ call' = [call EXCEPT ![t] = span_tokenize_gaps_step(@, _discard_empty)]
  /\ UNCHANGED <<config, _regexp, input, compiles, failed>>

Return(t) ==
  /\ call[t].pc \in {"done", "raised"}
  /\ call' = [call EXCEPT ![t] = Idle]
  /\ UNCHANGED <<config, _regexp, input, compiles, failed>>

ThreadStep(t) ==
  \/ Call(t)
  \/ CheckRegexp(t)
  \/ CompileRegexp(t)
  \/ Fetch(t)
  \/ TokenizeFindall(t)
  \/ TokenizeSplit(t)
  \/ SpanFinditer(t)
  \/ SpanGaps(t)
  \/ Return(t)

Next == \E t \in Threads : ThreadStep(t)

Spec == Init /\ [][Next]_vars

\* calls made one after another: a call starts when no other call is in progress
Quiet(t) == \A u \in Threads \ {t} : call[u].pc \in {"idle", "done", "raised"}

CallSeq(t) == Quiet(t) /\ Call(t)

NextSeq ==
  \E t \in Threads :
    \/ CallSeq(t)
    \/ CheckRegexp(t)
    \/ CompileRegexp(t)
    \/ Fetch(t)
    \/ TokenizeFindall(t)
    \/ TokenizeSplit(t)
    \/ SpanFinditer(t)
    \/ SpanGaps(t)
    \/ Return(t)

SpecSeq == InitSeq /\ [][NextSeq]_vars

\* ======================= claims =======================
Done(t, op) == call[t].pc = "done" /\ call[t].op = op

Slices(text, spans) == [i \in 1..Len(spans) |-> Slice(text, spans[i][1], spans[i][2])]

\* C1: the substrings text[s:e] over the spans of span_tokenize(text) equal
\* tokenize(text), element for element, for every configuration and text.
C1_SpanSlicesEqualTokenize ==
  \A t, u \in Threads :
    (Done(t, "tokenize") /\ Done(u, "span_tokenize") /\ call[t].text = call[u].text)
      => Slices(call[u].text, call[u].acc) = call[t].acc

\* the separators of a text: the non-empty matches of the pattern, left to
\* right (a zero-length match separates nothing and the search moves on one
\* position)
RECURSIVE SeparatorMatches(_, _, _)
SeparatorMatches(re, text, start) ==
  LET m == sre_search(re, text, start)
  IN IF m = <<>> THEN <<>>
     ELSE IF m_end(m) = m_start(m) THEN SeparatorMatches(re, text, m_end(m) + 1)
     ELSE <<(<<m_start(m), m_end(m)>>)>> \o SeparatorMatches(re, text, m_end(m))

Fragments(text, ms) ==
  [i \in 1..(Len(ms) + 1) |->
     Slice(text, IF i = 1 THEN 0 ELSE ms[i - 1][2],
                 IF i = Len(ms) + 1 THEN Len(text) ELSE ms[i][1])]

\* C2: in GAP mode with discard_empty false, tokenize(text) is exactly the
\* k+1 fragments around the k separator matches, empty fragments kept in place.
C2_GapKeepsEmptyFragments ==
  \A t \in Threads :
    (Done(t, "tokenize") /\ _gaps /\ ~_discard_empty)
      => call[t].acc = Fragments(call[t].text, SeparatorMatches(call[t].re, call[t].text, 0))

ZeroLength(op, x) == IF op = "tokenize" THEN x = <<>> ELSE x[1] = x[2]

RECURSIVE RemoveZeroLength(_, _)
RemoveZeroLength(op, xs) ==
  IF xs = <<>> THEN <<>>
  ELSE (IF ZeroLength(op, Head(xs)) THEN <<>> ELSE <<Head(xs)>>)
         \o RemoveZeroLength(op, Tail(xs))

\* C3: in GAP mode with discard_empty true, tokenize and span_tokenize return
\* no zero-length token, and return the discard_empty = false result of the
\* same pattern and text with the zero-length entries removed, order kept.
C3_DiscardEmptyDropsZeroLength ==
  \A t \in Threads :
    (call[t].pc = "done" /\ _gaps /\ _discard_empty)
      => /\ \A i \in 1..Len(call[t].acc) : ~ZeroLength(call[t].op, call[t].acc[i])
         /\ call[t].acc = RemoveZeroLength(call[t].op,
                            Alone(call[t].op, call[t].text, _pattern, TRUE, FALSE))

C3_Witness ==
  /\ _gaps /\ _discard_empty
  /\ Done(1, "tokenize") /\ Done(2, "span_tokenize")
  /\ \A t \in Threads :
       /\ Len(call[t].acc) > 0
       /\ Len(call[t].acc) < Len(Alone(call[t].op, call[t].text, _pattern, TRUE, FALSE))

Nullable(p) == \A i \in 1..Len(sre_parse(p)) : sre_parse(p)[i].q = "star"

C5_ScanAdvancesAndTerminates ==
  /\ [][\A t \in Threads :
          (call[t].pc = "scan" /\ call'[t] # call[t])
            => \/ call'[t].pc = "done"
               \/ /\ call'[t].pc = "scan"
                  /\ call'[t].start > call[t].start
                  /\ call'[t].start <= Len(call[t].text) + 1]_vars
  /\ [](\A t \in Threads :
          (call[t].op = "span_tokenize" /\ ~_gaps)
            => \A i, j \in 1..Len(call[t].acc) :
                 (i < j /\ call[t].acc[i][1] = call[t].acc[i][2])
                   => call[t].acc[j][1] > call[t].acc[i][1])

C5_Witness ==
  \E t \in Threads :
    /\ call[t].pc = "scan" /\ call[t].op = "span_tokenize" /\ ~_gaps
    /\ Len(call[t].acc) >= 2
    /\ LET z == call[t].acc[Len(call[t].acc)]
       IN z[1] = z[2] /\ call[t].start = z[2] + 1 /\ call[t].start <= Len(call[t].text)

\* C6 (as stated): after a failed compile every later call fails with the same
\* error and the compile is not attempted again.
C6_NoRecompileAfterFailure ==
  [][failed =>
       \A t \in Threads :
         /\ ~(call[t].pc = "compile" /\ call'[t].pc # "compile")
         /\ call'[t].pc \notin {"fetch", "scan", "done"}
         /\ call'[t].pc = "raised" => call'[t].exc = re_error(_pattern)]_vars

\* C6 (amended): after a failed compile the matcher stays uncompiled; every
\* later tokenize call, and every later span_tokenize once iterated, attempts
\* the compile again and fails with the same error.
C6_FailedCompileFailsAgain ==
  [][failed =>
       /\ _regexp' = None
       /\ \A t \in Threads :
            /\ (call[t].pc = "check" /\ call'[t].pc # "check") => call'[t].pc = "compile"
            /\ (call[t].pc = "compile" /\ call'[t].pc # "compile") => call'[t].pc = "raised"
            /\ call'[t].pc \notin {"fetch", "scan", "done"}
            /\ call'[t].pc = "raised" => call'[t].exc = re_error(_pattern)]_vars

C6_Witness ==
  /\ failed /\ _regexp = None
  /\ \A t \in Threads : call[t].pc = "raised" /\ call[t].exc = re_error(_pattern)

\* C7: whenever the matcher is compiled it is compiled with exactly the flags
\* given at construction.
C7_CompiledWithConstructorFlags ==
  _regexp # None => _regexp.flags = _flags

\* C8: calls of tokenize and span_tokenize running concurrently on one shared
\* tokenizer, in any interleaving, each return what the call returns when run
\* alone, and do not raise when the pattern compiles.
C8_ConcurrentCallsMatchAlone ==
  \A t \in Threads :
    /\ sre_valid(_pattern) => call[t].pc # "raised"
    /\ call[t].pc = "done" =>
         call[t].acc = Alone(call[t].op, call[t].text, _pattern, _gaps, _discard_empty)

C8_Witness ==
  /\ compiles = 2
  /\ Done(1, "tokenize") /\ Done(2, "span_tokenize")
  /\ call[1].text # call[2].text
  /\ call[1].acc # <<>> /\ call[2].acc # <<>>

\* C9: in TOKEN mode tokenize(text) contains no empty string, for every
\* pattern, text and discard_empty.
C9_TokenModeNoEmptyTokens ==
  \A t \in Threads :
    (Done(t, "tokenize") /\ ~_gaps)
      => \A i \in 1..Len(call[t].acc) : call[t].acc[i] # <<>>

\* C10: over calls made one after another the matcher is compiled at most
\* once, is never replaced once compiled, and pattern, mode, discard_empty and
\* flags keep their construction values.
C10_CompiledAtMostOnce ==
  /\ [](compiles <= 1)
  /\ [][/\ _regexp # None => _regexp' = _regexp
        /\ config' = config]_vars

C10_Witness ==
  /\ compiles = 1 /\ _regexp # None
  /\ \A t \in Threads : call[t].pc = "done"

====
